---------------------------- MODULE Spec2Model ----------------------------
(***************************************************************************)
(* FtihoEpitizer (src/FtihoEpitizer.py): the epitope -> FASTA conversion   *)
(* pipeline of EpitopeToFastaGUI and the widget state its handlers read    *)
(* and write.                                                              *)
(*                                                                         *)
(* Strings.  A Python str is the sequence of its characters, a character   *)
(* a one-character TLA+ string.  One more element, Blanks, stands for a    *)
(* run of MAX_INPUT_SIZE - 2 space characters: it is whitespace to strip() *)
(* and counts its full width in len(), so that the texts around the real   *)
(* size limit (ten million characters) are values of the model.            *)
(***************************************************************************)
EXTENDS Integers, Sequences, FiniteSets

\* ------------------------------------------------------------------------
\* Class-level constants
\* ------------------------------------------------------------------------

MAX_INPUT_SIZE == 10000000

VALID_AMINO_ACIDS ==
    {"A", "C", "D", "E", "F", "G", "H", "I", "K", "L",
     "M", "N", "P", "Q", "R", "S", "T", "V", "W", "Y"}

\* ------------------------------------------------------------------------
\* Python str operations
\* ------------------------------------------------------------------------

\* A run of MAX_INPUT_SIZE - 2 spaces
Blanks == "<blanks>"

Width(c) == IF c = Blanks THEN MAX_INPUT_SIZE - 2 ELSE 1

Min(a, b) == IF a < b THEN a ELSE b

SeqsUpTo(S, n) == UNION {[1..k -> S] : k \in 0..n}

Range(s) == {s[i] : i \in 1..Len(s)}

\* c.isspace()
IsSpace(c) == c \in {" ", "\n", "\t", "\r", Blanks}

LowerLetters ==
    <<"a", "b", "c", "d", "e", "f", "g", "h", "i", "j", "k", "l", "m",
      "n", "o", "p", "q", "r", "s", "t", "u", "v", "w", "x", "y", "z">>

UpperLetters ==
    <<"A", "B", "C", "D", "E", "F", "G", "H", "I", "J", "K", "L", "M",
      "N", "O", "P", "Q", "R", "S", "T", "U", "V", "W", "X", "Y", "Z">>

\* char.upper()
Upper(c) ==
    IF \E i \in 1..Len(LowerLetters) : LowerLetters[i] = c
    THEN UpperLetters[CHOOSE i \in 1..Len(LowerLetters) : LowerLetters[i] = c]
    ELSE c

\* len(text)
RECURSIVE StrLen(_)
StrLen(text) ==
    IF text = <<>> THEN 0 ELSE Width(Head(text)) + StrLen(Tail(text))

\* text.strip(" "): only the space is stripped
StripSpacesOnly(text) ==
    LET keep == {i \in 1..Len(text) : text[i] \notin {" ", Blanks}}
    IN  IF keep = {} THEN <<>>
        ELSE LET lo == CHOOSE i \in keep : \A j \in keep : i <= j
                 hi == CHOOSE i \in keep : \A j \in keep : j <= i
             IN  SubSeq(text, lo, hi)

\* text.strip()
Strip(text) ==
    LET keep == {i \in 1..Len(text) : ~IsSpace(text[i])}
    IN  IF keep = {} THEN <<>>
        ELSE LET lo == CHOOSE i \in keep : \A j \in keep : i <= j
                 hi == CHOOSE i \in keep : \A j \in keep : j <= i
             IN  SubSeq(text, lo, hi)

\* text.split(sep) for a one-character sep: the pieces between the
\* separators, the empty ones kept
RECURSIVE Split(_, _)
Split(text, sep) ==
    IF sep \notin Range(text) THEN <<text>>
    ELSE LET i == CHOOSE k \in 1..Len(text) :
                     text[k] = sep /\ \A j \in 1..(k - 1) : text[j] # sep
         IN  <<SubSeq(text, 1, i - 1)>>
                 \o Split(SubSeq(text, i + 1, Len(text)), sep)

\* str(i) of a natural number
Digits == <<"0", "1", "2", "3", "4", "5", "6", "7", "8", "9">>

RECURSIVE IntToStr(_)
IntToStr(i) ==
    IF i < 10 THEN <<Digits[i + 1]>>
    ELSE IntToStr(i \div 10) \o <<Digits[(i % 10) + 1]>>

\* ------------------------------------------------------------------------
\* The pipeline: validate_input, _is_valid_epitope, parse_epitopes,
\* _remove_duplicates, the FASTA write loop
\* ------------------------------------------------------------------------

\* validate_input without the size test
ValidateInputAnySize(text) == TRUE

\* validate_input(text): False exactly when the size error is shown (the
\* isinstance test never fails: both callers pass a str)
validate_input(text) == ~(StrLen(text) > MAX_INPUT_SIZE)

\* _is_valid_epitope without the upper-casing
IsValidEpitopeCaseSensitive(sequence) ==
    \A i \in 1..Len(sequence) : sequence[i] \in VALID_AMINO_ACIDS

\* _is_valid_epitope(sequence)
_is_valid_epitope(sequence) ==
    \A i \in 1..Len(sequence) : Upper(sequence[i]) \in VALID_AMINO_ACIDS

\* raw_epitopes splitting every line on commas
RECURSIVE SplitEach(_, _)
SplitEach(pieces, sep) ==
    IF pieces = <<>> THEN <<>>
    ELSE Split(Head(pieces), sep) \o SplitEach(Tail(pieces), sep)

RawEpitopesBothSeparators(text) == SplitEach(Split(text, "\n"), ",")

\* raw_epitopes of parse_epitopes: one separator for the whole text
raw_epitopes(text) ==
    IF "," \in Range(text) THEN Split(text, ",") ELSE Split(text, "\n")

\* The loop keeping an invalid token among the epitopes as well
RECURSIVE ParseLoopKeepingInvalid(_, _)
ParseLoopKeepingInvalid(raw, acc) ==
    IF raw = <<>> THEN acc
    ELSE LET epitope == Strip(Head(raw))
             next ==
                 IF epitope # <<>>
                 THEN IF ~_is_valid_epitope(epitope)
                      THEN [acc EXCEPT !.invalid_sequences = Append(@, epitope),
                                       !.epitopes = Append(@, epitope)]
                      ELSE [acc EXCEPT !.epitopes = Append(@, epitope)]
                 ELSE acc
         IN  ParseLoopKeepingInvalid(Tail(raw), next)

\* The for loop of parse_epitopes over the pieces still to visit; acc
\* holds the two lists built so far.
RECURSIVE ParseLoop(_, _)
ParseLoop(raw, acc) ==
    IF raw = <<>> THEN acc
    ELSE LET epitope == Strip(Head(raw))
             next ==
                 IF epitope # <<>>
                 THEN IF ~_is_valid_epitope(epitope)
                      THEN [acc EXCEPT !.invalid_sequences = Append(@, epitope)]
                      ELSE [acc EXCEPT !.epitopes = Append(@, epitope)]
                 ELSE acc
         IN  ParseLoop(Tail(raw), next)

\* The two lists when the loop of parse_epitopes ends
Classify(text) ==
    ParseLoop(raw_epitopes(text), [epitopes |-> <<>>, invalid_sequences |-> <<>>])

\* parse_epitopes that skips the invalid tokens instead of raising
ParseEpitopesSkipInvalid(text) ==
    [raised |-> FALSE, epitopes |-> Classify(text).epitopes,
     shown |-> <<>>, more |-> 0]

\* parse_epitopes(text): raised = TRUE stands for raise ValueError(error_msg),
\* with the tokens the message lists (shown) and the "...and n more" count;
\* nothing is returned then.  Otherwise epitopes is the returned list.
parse_epitopes(text) ==
    LET lists == Classify(text)
        invalid_sequences == lists.invalid_sequences
    IN  IF invalid_sequences # <<>>
        THEN [raised |-> TRUE,
              epitopes |-> <<>>,
              shown |-> SubSeq(invalid_sequences, 1, Min(5, Len(invalid_sequences))),
              more |-> IF Len(invalid_sequences) > 5
                       THEN Len(invalid_sequences) - 5 ELSE 0]
        ELSE [raised |-> FALSE,
              epitopes |-> lists.epitopes,
              shown |-> <<>>,
              more |-> 0]

\* The loop stopping at the first later occurrence it drops
RECURSIVE DedupeLoopDroppingOne(_, _, _)
DedupeLoopDroppingOne(epitopes, seen, unique_epitopes) ==
    IF epitopes = <<>> THEN unique_epitopes
    ELSE LET epitope == Head(epitopes)
         IN  IF epitope \notin seen
             THEN DedupeLoopDroppingOne(Tail(epitopes), seen \cup {epitope},
                                        Append(unique_epitopes, epitope))
             ELSE unique_epitopes \o Tail(epitopes)

\* The loop of _remove_duplicates over the epitopes still to visit
RECURSIVE DedupeLoop(_, _, _)
DedupeLoop(epitopes, seen, unique_epitopes) ==
    IF epitopes = <<>> THEN unique_epitopes
    ELSE LET epitope == Head(epitopes)
         IN  IF epitope \notin seen
             THEN DedupeLoop(Tail(epitopes), seen \cup {epitope},
                             Append(unique_epitopes, epitope))
             ELSE DedupeLoop(Tail(epitopes), seen, unique_epitopes)

\* _remove_duplicates comparing the epitopes upper-cased
RECURSIVE DedupeLoopIgnoringCase(_, _, _)
DedupeLoopIgnoringCase(epitopes, seen, unique_epitopes) ==
    IF epitopes = <<>> THEN unique_epitopes
    ELSE LET epitope == Head(epitopes)
             key == [i \in 1..Len(epitope) |-> Upper(epitope[i])]
         IN  IF key \notin seen
             THEN DedupeLoopIgnoringCase(Tail(epitopes), seen \cup {key},
                                         Append(unique_epitopes, epitope))
             ELSE DedupeLoopIgnoringCase(Tail(epitopes), seen, unique_epitopes)

RemoveDuplicatesIgnoringCase(epitopes) == DedupeLoopIgnoringCase(epitopes, {}, <<>>)

\* _remove_duplicates(epitopes)
_remove_duplicates(epitopes) == DedupeLoop(epitopes, {}, <<>>)

\* The record with the sequence upper-cased
FastaRecordUpperCased(i, epitope) ==
    <<">", "s", "e", "q">> \o IntToStr(i) \o <<"\n">>
        \o [k \in 1..Len(epitope) |-> Upper(epitope[k])] \o <<"\n">>

\* f">seq{i}\n{epitope}\n"
FastaRecord(i, epitope) ==
    <<">", "s", "e", "q">> \o IntToStr(i) \o <<"\n">> \o epitope \o <<"\n">>

\* What the write loop has written after the records start..Len(epitopes)
\* (enumerate(epitopes, start=1))
RECURSIVE WriteLoop(_, _)
WriteLoop(epitopes, i) ==
    IF i > Len(epitopes) THEN <<>>
    ELSE FastaRecord(i, epitopes[i]) \o WriteLoop(epitopes, i + 1)

\* The records written from the last epitope to the first
WriteRecordsLastFirst(epitopes) ==
    WriteLoop([i \in 1..Len(epitopes) |-> epitopes[Len(epitopes) + 1 - i]], 1)

WriteRecords(epitopes) == WriteLoop(epitopes, 1)

\* os.path.basename of a path given as its components
basename(path) == path[Len(path)]

\* ------------------------------------------------------------------------
\* State
\* ------------------------------------------------------------------------

VARIABLES
    dark_mode,          \* self.dark_mode
    cached_colors,      \* self._cached_colors: <<theme flag, scheme>> or <<>> (None)
    selected_file,      \* self.selected_file: path components, <<>> for None
    input_method,       \* self.input_method (StringVar): "manual" | "file"
    text_input,         \* content of the self.text_input widget, the final
                        \* newline Tk keeps not included
    file_path_var,      \* self.file_path_var (StringVar)
    remove_duplicates,  \* self.remove_duplicates (BooleanVar)
    status_var,         \* self.status_var (StringVar): [msg, n]
    fx,                 \* what the latest event did outside the widget state:
                        \* text read, dialogs shown, file opened and written
    call                \* SpecPure: the latest call of a pipeline function

vars == <<dark_mode, cached_colors, selected_file, input_method, text_input,
          file_path_var, remove_duplicates, status_var, fx, call>>

\* The file the open dialog offers and the path the save dialog returns
InputPath == <<"data", "epitopes.txt">>

OutputPath == <<"results", "epitopes.fasta">>

Status(msg, n) == [msg |-> msg, n |-> n]

NoBox ==
    [kind |-> "none", title |-> "", msg |-> "", shown |-> <<>>, more |-> 0,
     count |-> 0, with_removed |-> FALSE, removed |-> 0, saved |-> ""]

\* messagebox.showwarning / showerror with a fixed message
Box(kind, title, msg) == [NoBox EXCEPT !.kind = kind, !.title = title, !.msg = msg]

NoFx ==
    [handler |-> "none",
     has_text |-> FALSE,           \* a text was obtained (widget or file)
     text |-> <<>>,
     validated |-> FALSE,          \* validate_input was called
     parsed |-> FALSE,             \* parse_epitopes was called
     epitopes |-> <<>>,            \* the handler's epitopes when it returned
     original_count |-> 0,
     box |-> NoBox,                \* the message box shown
     save_dialog |-> FALSE,        \* asksaveasfilename was shown
     output_file |-> <<>>,         \* its answer
     opened |-> FALSE,             \* the output path was opened for writing
     written |-> <<>>]             \* characters written to it

\* A call of a pipeline function: its argument (a text or an epitope list)
\* and, once done, what it returned or that it raised; then, once the
\* function was called again on what it returned, what that call returned
NoCall ==
    [fn |-> "none", done |-> FALSE, text |-> <<>>, list |-> <<>>,
     raised |-> FALSE, out_list |-> <<>>, out_text |-> <<>>,
     accepted |-> <<>>, rejected |-> <<>>,
     again |-> FALSE, out_again |-> <<>>]

LightScheme == "light"

DarkScheme == "dark"

\* get_current_colors(): refreshes the cache when it is stale
get_current_colors_cache(cache, dark) ==
    IF cache = <<>> \/ cache[1] # dark
    THEN <<dark, IF dark THEN DarkScheme ELSE LightScheme>>
    ELSE cache

\* create_ui(): destroys every widget and builds new ones with new Tk
\* variables, under the colours of the theme `dark` given the cache `cache`;
\* selected_file and dark_mode are attributes and stay.
create_ui(cache, dark) ==
    /\ cached_colors' = get_current_colors_cache(cache, dark)
    /\ input_method' = "manual"
    /\ text_input' = <<>>
    /\ file_path_var' = "No file selected"
    /\ remove_duplicates' = FALSE
    /\ status_var' = Status("Ready", 0)

\* __init__
Init ==
    /\ dark_mode = FALSE
    /\ selected_file = <<>>
    /\ cached_colors = get_current_colors_cache(<<>>, FALSE)
    /\ input_method = "manual"
    /\ text_input = <<>>
    /\ file_path_var = "No file selected"
    /\ remove_duplicates = FALSE
    /\ status_var = Status("Ready", 0)
    /\ fx = NoFx
    /\ call = NoCall

\* ------------------------------------------------------------------------
\* Inputs of the application specification
\* ------------------------------------------------------------------------

\* What the user leaves in the text area: nothing; blanks only; one
\* epitope; the same epitope twice, with either separator; two epitopes
\* that differ in case only; three lines with one repeat; a digit among
\* valid tokens; an invalid token alone; separators only; then texts at
\* and over the size limit (the widget adds one newline): blanks only, a
\* valid token, an invalid token, separators only.
TypedTexts ==
    {<<>>,
     <<" ">>,
     <<"a">>,
     <<"a", ",", "a">>,
     <<"a", "\n", "a">>,
     <<"A", ",", " ", "a">>,
     <<"A", "C", "\n", "a", "\n", "A", "C">>,
     <<"a", ",", "1">>,
     <<"1">>,
     <<",">>,
     <<Blanks>>,
     <<Blanks, " ">>,
     <<Blanks, " ", " ">>,
     <<Blanks, "a">>,
     <<Blanks, "a", "a">>,
     <<Blanks, ",", "1">>,
     <<Blanks, ",", ",">>}

\* What the selected file holds when it is read
FileTexts ==
    {<<>>,
     <<"\n">>,
     <<"a", "\n", "A", "\n", "a", "\n">>,
     <<"a", ",", "1">>,
     <<",", "\n">>,
     <<Blanks, " ", " ">>,
     <<Blanks, " ", " ", " ">>,
     <<Blanks, "a", "\n">>,
     <<Blanks, "a", "\n", "a">>,
     <<Blanks, "1", ",", ",">>}

\* ------------------------------------------------------------------------
\* Widget events (the user edits the text area, clicks a radio button or
\* the checkbox); the text area is packed only while input_method is
\* "manual", the browse button only while it is "file".
\* ------------------------------------------------------------------------

\* The user replaces the content of the text area
EnterText(t) ==
    /\ input_method = "manual"
    /\ t # text_input
    /\ text_input' = t
    /\ fx' = NoFx
    /\ UNCHANGED <<dark_mode, cached_colors, selected_file, input_method,
                   file_path_var, remove_duplicates, status_var, call>>

\* A radio button: sets input_method, then toggle_input_method() packs the
\* frame of the chosen method and hides the other
SelectInputMethod(m) ==
    /\ m # input_method
    /\ input_method' = m
    /\ fx' = NoFx
    /\ UNCHANGED <<dark_mode, cached_colors, selected_file, text_input,
                   file_path_var, remove_duplicates, status_var, call>>

\* The "Remove duplicate epitopes" checkbox
ToggleRemoveDuplicates ==
    /\ remove_duplicates' = ~remove_duplicates
    /\ fx' = NoFx
    /\ UNCHANGED <<dark_mode, cached_colors, selected_file, input_method,
                   text_input, file_path_var, status_var, call>>

\* ------------------------------------------------------------------------
\* Handlers
\* ------------------------------------------------------------------------

\* toggle_dark_mode()
toggle_dark_mode ==
    /\ dark_mode' = ~dark_mode
    /\ create_ui(<<>>, dark_mode')
    /\ fx' = [NoFx EXCEPT !.handler = "toggle_dark_mode"]
    /\ UNCHANGED <<selected_file, call>>

\* browse_file(): the open dialog answers with a path, with nothing
\* (cancelled), or raises
browse_file ==
    /\ input_method = "file"
    /\ \E answer \in {"path", "cancel", "raise"} :
          /\ fx' = [NoFx EXCEPT
                      !.handler = "browse_file",
                      !.box = IF answer = "raise"
                              THEN Box("showerror", "Error", "Failed to open file")
                              ELSE NoBox]
          /\ IF answer = "path"
             THEN /\ file_path_var' = basename(InputPath)
                  /\ selected_file' = InputPath
                  /\ status_var' = Status("File selected", 0)
             ELSE IF answer = "raise"
             THEN /\ status_var' = Status("Error selecting file", 0)
                  /\ UNCHANGED <<file_path_var, selected_file>>
             ELSE UNCHANGED <<file_path_var, selected_file, status_var>>
    /\ UNCHANGED <<dark_mode, cached_colors, input_method, text_input,
                   remove_duplicates, call>>

\* What open(selected_file).read() can do, and open(output_file, 'w') with
\* the writes
ReadResults == {"ok", "FileNotFoundError", "PermissionError",
                "UnicodeDecodeError", "OSError"}

WriteResults == {"ok", "PermissionError", "OSError"}

\* The handler returns: its effects and the status text are final
Return(f, status) ==
    /\ fx' = f
    /\ status_var' = status
    /\ UNCHANGED <<dark_mode, cached_colors, selected_file, input_method,
                   text_input, file_path_var, remove_duplicates, call>>

\* except ValueError as e (the message of parse_epitopes)
ExceptValueError(f, parsed) ==
    Return([f EXCEPT !.box = [Box("showerror", "Invalid Input",
                                  "Invalid epitope sequence(s) detected")
                              EXCEPT !.shown = parsed.shown,
                                     !.more = parsed.more]],
           Status("Invalid epitope sequence(s)", 0))

\* except Exception as e
ExceptException(f) ==
    Return([f EXCEPT !.box = Box("showerror", "Error",
                                 "An unexpected error occurred")],
           Status("Error occurred", 0))

\* The success message: the count, the removed clause, the basename
SuccessBoxAlwaysRemoved(epitopes, original_count, output_file) ==
    [Box("showinfo", "Success", "Successfully converted") EXCEPT
        !.count = Len(epitopes),
        !.with_removed = remove_duplicates,
        !.removed = IF remove_duplicates
                    THEN original_count - Len(epitopes) ELSE 0,
        !.saved = basename(output_file)]

SuccessBox(epitopes, original_count, output_file) ==
    [Box("showinfo", "Success", "Successfully converted") EXCEPT
        !.count = Len(epitopes),
        !.with_removed = remove_duplicates /\ original_count # Len(epitopes),
        !.removed = IF remove_duplicates /\ original_count # Len(epitopes)
                    THEN original_count - Len(epitopes) ELSE 0,
        !.saved = basename(output_file)]

\* convert_to_fasta from "if not epitopes" on, with the epitopes parsed
AfterParse(f0, parsed_epitopes) ==
    IF parsed_epitopes = <<>>
    THEN Return([f0 EXCEPT !.box = Box("showwarning", "Warning",
                                       "No valid epitopes found!")],
                status_var)
    ELSE
      LET original_count == Len(parsed_epitopes)
          epitopes == IF remove_duplicates
                      THEN _remove_duplicates(parsed_epitopes)
                      ELSE parsed_epitopes
          duplicates_removed == original_count - Len(epitopes)
          status1 == IF remove_duplicates /\ duplicates_removed > 0
                     THEN Status("Removed duplicate(s)", duplicates_removed)
                     ELSE status_var
          f1 == [f0 EXCEPT !.epitopes = epitopes,
                           !.original_count = original_count,
                           !.save_dialog = TRUE]
      IN  \E output_file \in {<<>>, OutputPath} :
            IF output_file = <<>>
            THEN Return(f1, status1)
            ELSE
              LET f2 == [f1 EXCEPT !.output_file = output_file]
              IN  \E result \in WriteResults :
                    CASE result = "PermissionError" ->
                           Return([f2 EXCEPT !.box =
                                     Box("showerror", "Error",
                                         "Permission denied to write file")],
                                  status1)
                      [] result = "OSError" ->
                           \E was_opened \in BOOLEAN :
                           \E k \in 0..Len(epitopes) :
                             /\ was_opened \/ k = 0
                             /\ Return([f2 EXCEPT
                                          !.opened = was_opened,
                                          !.written =
                                             WriteRecords(SubSeq(epitopes, 1, k)),
                                          !.box = Box("showerror", "Error",
                                                      "Failed to write file")],
                                       status1)
                      [] result = "ok" ->
                           Return([f2 EXCEPT
                                     !.opened = TRUE,
                                     !.written = WriteRecords(epitopes),
                                     !.box = SuccessBox(epitopes, original_count,
                                                        output_file)],
                                  Status("Converted sequences", Len(epitopes)))

\* validate_input(text) and parse_epitopes(text) as both branches call them
ValidateAndParse(f0, text) ==
    LET f1 == [f0 EXCEPT !.has_text = TRUE, !.text = text, !.validated = TRUE]
    IN  IF ~validate_input(text)
        THEN Return([f1 EXCEPT !.box = Box("showerror", "Error",
                                           "Input size too large")],
                    status_var)
        ELSE LET parsed == parse_epitopes(text)
                 f2 == [f1 EXCEPT !.parsed = TRUE]
             IN  IF parsed.raised
                 THEN ExceptValueError(f2, parsed)
                 ELSE AfterParse(f2, parsed.epitopes)

\* text_input.get("1.0", tk.END): the content and the newline Tk ends it with
text_input_get == Append(text_input, "\n")

\* The manual branch of convert_to_fasta
ConvertManual(f0) ==
    LET text == text_input_get
    IN  IF Strip(text) = <<>>
        THEN Return([f0 EXCEPT !.has_text = TRUE, !.text = text,
                               !.box = Box("showwarning", "Warning",
                                           "Please enter epitope sequences!")],
                    status_var)
        ELSE ValidateAndParse(f0, text)

\* The file branch of convert_to_fasta; the file holds any text within the
\* model's bound
ConvertFile(f0) ==
    IF selected_file = <<>>
    THEN Return([f0 EXCEPT !.box = Box("showwarning", "Warning",
                                       "Please select a file!")],
                status_var)
    ELSE \E result \in ReadResults :
           CASE result = "FileNotFoundError" ->
                  Return([f0 EXCEPT !.box = Box("showerror", "Error",
                                                "File not found")],
                         status_var)
             [] result = "PermissionError" ->
                  Return([f0 EXCEPT !.box = Box("showerror", "Error",
                                                "Permission denied to read file")],
                         status_var)
             [] result = "UnicodeDecodeError" ->
                  Return([f0 EXCEPT !.box = Box("showerror", "Error",
                                                "File encoding not supported")],
                         status_var)
             [] result = "OSError" -> ExceptException(f0)
             [] result = "ok" ->
                  \E text \in FileTexts : ValidateAndParse(f0, text)

\* A handler that stays broken once a request has ended with an error box
ConvertToFastaStuckAfterError ==
    LET f0 == [NoFx EXCEPT !.handler = "convert_to_fasta"]
    IN  IF fx.handler = "convert_to_fasta" /\ fx.box.kind = "showerror"
        THEN ExceptException(f0)
        ELSE IF input_method = "manual" THEN ConvertManual(f0)
        ELSE ConvertFile(f0)

\* convert_to_fasta()
convert_to_fasta ==
    LET f0 == [NoFx EXCEPT !.handler = "convert_to_fasta"]
    IN  IF input_method = "manual" THEN ConvertManual(f0) ELSE ConvertFile(f0)

Next ==
    \/ \E t \in TypedTexts : EnterText(t)
    \/ \E m \in {"manual", "file"} : SelectInputMethod(m)
    \/ ToggleRemoveDuplicates
    \/ toggle_dark_mode
    \/ browse_file
    \/ convert_to_fasta

Spec == Init /\ [][Next]_vars

\* ------------------------------------------------------------------------
\* SpecPure: the pipeline functions called on every argument within the
\* bounds
\* ------------------------------------------------------------------------

\* Longest text handed to parse_epitopes
MaxParseLen == 4

\* Longest epitope list handed to _remove_duplicates and to the write loop
MaxList == 5

\* Longest list of one repeated epitope handed to the write loop (reaches
\* the two-digit record numbers)
MaxRecords == 11

\* Characters of the texts handed to parse_epitopes: valid residues in both
\* cases, a digit, both separators, a blank
ParseChars == {"A", "C", "a", "1", ",", "\n", " "}

\* Epitopes of the lists: two residues, one of them in both cases, and a
\* longer epitope
ListEpitopes == {<<"A">>, <<"a">>, <<"C">>, <<"A", "C">>}

\* A longer text whose valid and invalid tokens alternate, with a piece that
\* is blank
MixedText ==
    <<"C", ",", "1", ",", "a", ",", " ", ",", "a", "1", ",", "A">>

ParseTexts == SeqsUpTo(ParseChars, MaxParseLen) \cup {MixedText}

EpitopeLists == SeqsUpTo(ListEpitopes, MaxList)

WriteLists ==
    SeqsUpTo(ListEpitopes, MaxList - 2)
        \cup {[i \in 1..n |-> <<"A", "C">>] : n \in 1..MaxRecords}

\* Lists written and parsed back: validated epitopes, and one list with an
\* entry that no parse would have returned
RoundTripLists == WriteLists \cup {<< <<"A">>, <<"1">> >>}

PureCalls ==
    {[NoCall EXCEPT !.fn = "parse_epitopes", !.text = text] : text \in ParseTexts}
        \cup {[NoCall EXCEPT !.fn = "round_trip", !.list = list] :
                 list \in RoundTripLists}
        \cup {[NoCall EXCEPT !.fn = "_remove_duplicates", !.list = list] :
                 list \in EpitopeLists}
        \cup {[NoCall EXCEPT !.fn = "write", !.list = list] : list \in WriteLists}

InitPure ==
    /\ Init!1 /\ Init!2 /\ Init!3 /\ Init!4 /\ Init!5
    /\ Init!6 /\ Init!7 /\ Init!8 /\ Init!9
    /\ call \in PureCalls

gui == <<dark_mode, cached_colors, selected_file, input_method, text_input,
         file_path_var, remove_duplicates, status_var, fx>>

call_parse_epitopes ==
    /\ call.fn = "parse_epitopes" /\ ~call.done
    /\ LET parsed == parse_epitopes(call.text)
           lists == Classify(call.text)
       IN  call' = [call EXCEPT !.done = TRUE,
                                !.raised = parsed.raised,
                                !.out_list = parsed.epitopes,
                                !.accepted = lists.epitopes,
                                !.rejected = lists.invalid_sequences]
    /\ UNCHANGED gui

call_remove_duplicates ==
    /\ call.fn = "_remove_duplicates" /\ ~call.done
    /\ call' = [call EXCEPT !.done = TRUE,
                            !.out_list = _remove_duplicates(call.list)]
    /\ UNCHANGED gui

\* _remove_duplicates called on the list its first call returned
call_remove_duplicates_again ==
    /\ call.fn = "_remove_duplicates" /\ call.done /\ ~call.again
    /\ call' = [call EXCEPT !.again = TRUE,
                            !.out_again = _remove_duplicates(call.out_list)]
    /\ UNCHANGED gui

call_write ==
    /\ call.fn = "write" /\ ~call.done
    /\ call' = [call EXCEPT !.done = TRUE,
                            !.out_text = WriteRecords(call.list)]
    /\ UNCHANGED gui

\* The lines of a written text that are no header lines, joined again by
\* line breaks
IsHeaderLine(line) == line # <<>> /\ line[1] = ">"

IsSequenceLine(line) == ~IsHeaderLine(line)

RECURSIVE JoinLines(_)
JoinLines(lines) ==
    IF lines = <<>> THEN <<>>
    ELSE IF Len(lines) = 1 THEN lines[1]
    ELSE lines[1] \o <<"\n">> \o JoinLines(Tail(lines))

\* The written text of a list read back: split on line breaks, the header
\* lines dropped, the rest handed to parse_epitopes
call_round_trip ==
    /\ call.fn = "round_trip" /\ ~call.done
    /\ LET written == WriteRecords(call.list)
           remaining == JoinLines(SelectSeq(Split(written, "\n"), IsSequenceLine))
           parsed == parse_epitopes(remaining)
       IN  call' = [call EXCEPT !.done = TRUE,
                                !.out_text = written,
                                !.text = remaining,
                                !.raised = parsed.raised,
                                !.out_list = parsed.epitopes]
    /\ UNCHANGED gui

NextPure ==
    \/ call_parse_epitopes
    \/ call_remove_duplicates
    \/ call_remove_duplicates_again
    \/ call_write
    \/ call_round_trip

SpecPure == InitPure /\ [][NextPure]_vars

\* ------------------------------------------------------------------------
\* The vocabulary of the properties, stated without the operators above
\* ------------------------------------------------------------------------

\* The amino-acid letters in either case
AlphabetEitherCase ==
    VALID_AMINO_ACIDS
        \cup {"a", "c", "d", "e", "f", "g", "h", "i", "k", "l",
              "m", "n", "p", "q", "r", "s", "t", "v", "w", "y"}

Blank(c) == c \in {" ", "\n", "\t", "\r", Blanks}

\* The pieces of a text between the occurrences of sep, in order
PiecesOf(text, sep) ==
    LET cuts == {0, Len(text) + 1} \cup {i \in 1..Len(text) : text[i] = sep}
        cut(k) == CHOOSE c \in cuts : Cardinality({d \in cuts : d < c}) = k - 1
    IN  [k \in 1..(Cardinality(cuts) - 1) |->
            [j \in 1..(cut(k + 1) - cut(k) - 1) |-> text[cut(k) + j]]]

\* A piece without its leading and trailing blanks
Trimmed(piece) ==
    LET n == Len(piece)
        lead == Cardinality({i \in 1..n : \A j \in 1..i : Blank(piece[j])})
        trail == Cardinality({i \in 1..n : \A j \in i..n : Blank(piece[j])})
    IN  IF lead = n THEN <<>>
        ELSE [j \in 1..(n - lead - trail) |-> piece[lead + j]]

NonEmpty(s) == s # <<>>

\* The separator of a text: the comma when it holds one, else the line break
SeparatorOf(text) ==
    IF \E i \in 1..Len(text) : text[i] = "," THEN "," ELSE "\n"

\* The tokens of a text: its pieces, trimmed, the empty ones dropped
TokensOf(text) ==
    LET pieces == PiecesOf(text, SeparatorOf(text))
    IN  SelectSeq([k \in 1..Len(pieces) |-> Trimmed(pieces[k])], NonEmpty)

InAlphabet(token) == \A i \in 1..Len(token) : token[i] \in AlphabetEitherCase

OutsideAlphabet(token) == ~InAlphabet(token)

\* The message boxes of convert_to_fasta, by outcome
TooLarge(f) == f.box.kind = "showerror" /\ f.box.msg = "Input size too large"

InvalidSequence(f) ==
    /\ f.box.kind = "showerror"
    /\ f.box.title = "Invalid Input"
    /\ f.box.msg = "Invalid epitope sequence(s) detected"

EmptyInput(f) ==
    /\ f.box.kind = "showwarning"
    /\ f.box.msg \in {"Please enter epitope sequences!", "No valid epitopes found!"}

NoSourceSelected(f) ==
    f.box.kind = "showwarning" /\ f.box.msg = "Please select a file!"

FileReadFailure(f) ==
    /\ f.box.kind = "showerror"
    /\ f.box.msg \in {"File not found", "Permission denied to read file",
                      "File encoding not supported"}

WriteFailure(f) ==
    /\ f.box.kind = "showerror"
    /\ f.box.msg \in {"Permission denied to write file", "Failed to write file"}

Success(f) == f.box.kind = "showinfo"

SaveCancelled(f) == f.save_dialog /\ f.output_file = <<>>

Converted(f) == f.handler = "convert_to_fasta"

NothingSaved(f) ==
    ~f.save_dialog /\ f.output_file = <<>> /\ ~f.opened /\ f.written = <<>>

\* ------------------------------------------------------------------------
\* C1
\* ------------------------------------------------------------------------

\* C1: whenever parse_epitopes is handed a text with a token that holds a
\* character outside the alphabet, the request ends with the
\* invalid-sequence error listing the offending tokens, the handler holds
\* no epitope at all, and neither the save dialog nor the output file is
\* reached.
C1_AllOrNothing ==
    (Converted(fx) /\ fx.parsed
        /\ \E i \in 1..Len(TokensOf(fx.text)) : OutsideAlphabet(TokensOf(fx.text)[i]))
    => /\ InvalidSequence(fx)
       /\ fx.box.shown = SelectSeq(TokensOf(fx.text), OutsideAlphabet)
       /\ fx.epitopes = <<>>
       /\ NothingSaved(fx)
       /\ status_var = Status("Invalid epitope sequence(s)", 0)

\* A text with a valid and an invalid token was parsed and rejected
C1_Witness ==
    /\ Converted(fx) /\ fx.parsed /\ InvalidSequence(fx)
    /\ \E i, j \in 1..Len(TokensOf(fx.text)) :
          /\ InAlphabet(TokensOf(fx.text)[i])
          /\ OutsideAlphabet(TokensOf(fx.text)[j])

\* ------------------------------------------------------------------------
\* C2
\* ------------------------------------------------------------------------

\* C2: when every token of the text is made of alphabet letters in either
\* case, parse_epitopes returns the tokens themselves: one epitope per
\* token, in order, case unchanged.
C2_ValidTokensReturned ==
    (call.fn = "parse_epitopes" /\ call.done
        /\ \A i \in 1..Len(TokensOf(call.text)) : InAlphabet(TokensOf(call.text)[i]))
    => /\ ~call.raised
       /\ call.out_list = TokensOf(call.text)

\* Two tokens came back, one in lower case, one in upper case
C2_Witness ==
    /\ call.fn = "parse_epitopes" /\ call.done /\ ~call.raised
    /\ Len(call.out_list) = 2
    /\ call.out_list[1] = <<"a">>
    /\ call.out_list[2] = <<"A", "C">>

\* ------------------------------------------------------------------------
\* C3
\* ------------------------------------------------------------------------

\* C3: parse_epitopes sorts into its two lists exactly the tokens of the
\* text under the one separator chosen for the whole text (the comma when
\* the text holds one, else the line break): the accepted list is the
\* tokens inside the alphabet, the rejected list the tokens outside it,
\* and a piece that is empty once trimmed is in neither.
C3_OneSeparator ==
    (call.fn = "parse_epitopes" /\ call.done)
    => /\ call.accepted = SelectSeq(TokensOf(call.text), InAlphabet)
       /\ call.rejected = SelectSeq(TokensOf(call.text), OutsideAlphabet)

\* A text with a comma whose token spans a line break, and with a piece
\* that is empty once trimmed
C3_Witness ==
    /\ call.fn = "parse_epitopes" /\ call.done
    /\ call.text = <<"A", "\n", "C", ",">>
    /\ call.rejected = << <<"A", "\n", "C">> >>
    /\ call.accepted = <<>>

\* ------------------------------------------------------------------------
\* C4
\* ------------------------------------------------------------------------

\* The number of characters of a text
SizeOf(text) ==
    Len(text) + Cardinality({i \in 1..Len(text) : text[i] = Blanks})
                    * (MAX_INPUT_SIZE - 3)

\* C4: a request whose text is longer than MAX_INPUT_SIZE ends with the
\* input-too-large error and nothing else, the text is not parsed, and a
\* text of at most MAX_INPUT_SIZE characters is not rejected as too large.
C4_TooLargeOnly ==
    (Converted(fx) /\ fx.has_text)
    => IF SizeOf(fx.text) > MAX_INPUT_SIZE
       THEN TooLarge(fx) /\ ~fx.parsed /\ NothingSaved(fx)
       ELSE ~TooLarge(fx)

\* ------------------------------------------------------------------------
\* C5
\* ------------------------------------------------------------------------

FirstOccurrences(x) == {i \in 1..Len(x) : \A j \in 1..(i - 1) : x[j] # x[i]}

\* The elements of x at the positions P, in the order of x
AtPositions(x, P) ==
    LET pos(k) == CHOOSE p \in P : Cardinality({q \in P : q < p}) = k - 1
    IN  [k \in 1..Cardinality(P) |-> x[pos(k)]]

\* C6: _remove_duplicates returns the strings of the list at the positions
\* of their first occurrence, in list order, two strings being the same
\* only when equal character by character; the entries it removes are the
\* later occurrences, Len(list) - Len(result) of them.
C6_FirstOccurrencesKept ==
    (call.fn = "_remove_duplicates" /\ call.done)
    => /\ call.out_list = AtPositions(call.list, FirstOccurrences(call.list))
       /\ Len(call.list) - Len(call.out_list)
            = Cardinality((1..Len(call.list)) \ FirstOccurrences(call.list))

\* The list A, C, A, a, C: two later occurrences dropped, "a" kept beside "A"
C6_Witness ==
    /\ call.fn = "_remove_duplicates" /\ call.done
    /\ call.list = << <<"A">>, <<"C">>, <<"A">>, <<"a">>, <<"C">> >>
    /\ call.out_list = << <<"A">>, <<"C">>, <<"a">> >>

\* ------------------------------------------------------------------------
\* C7
\* ------------------------------------------------------------------------

\* The number a sequence of decimal digits writes
RECURSIVE DecimalValue(_)
DecimalValue(d) ==
    IF d = <<>> THEN 0
    ELSE 10 * DecimalValue(SubSeq(d, 1, Len(d) - 1))
            + (CHOOSE v \in 0..9 : Digits[v + 1] = d[Len(d)])

IsDecimalOf(d, i) ==
    /\ d # <<>>
    /\ \A k \in 1..Len(d) : \E v \in 0..9 : Digits[v + 1] = d[k]
    /\ d[1] # "0"
    /\ DecimalValue(d) = i

\* C7: the text written for the list e_1..e_n is 2n lines, each ended by a
\* newline: line 2i-1 is ">seq" followed by i in decimal, line 2i is e_i as
\* it stands; nothing follows the last newline and no line is blank.
C7_FastaText ==
    (call.fn = "write" /\ call.done)
    => LET n == Len(call.list)
           lines == PiecesOf(call.out_text, "\n")
       IN  /\ Len(lines) = 2 * n + 1
           /\ lines[2 * n + 1] = <<>>
           /\ \A i \in 1..n :
                 /\ Len(lines[2 * i - 1]) > 4
                 /\ SubSeq(lines[2 * i - 1], 1, 4) = <<">", "s", "e", "q">>
                 /\ IsDecimalOf(SubSeq(lines[2 * i - 1], 5, Len(lines[2 * i - 1])), i)
                 /\ lines[2 * i] = call.list[i]
           /\ Cardinality({k \in 1..Len(lines) :
                              lines[k] # <<>> /\ lines[k][1] = ">"}) = n

\* A list long enough for a two-digit record number was written
C7_Witness ==
    /\ call.fn = "write" /\ call.done
    /\ Len(call.list) >= 10
    /\ call.out_text # <<>>

\* Two records of different case were written
C7_WitnessCase ==
    /\ call.fn = "write" /\ call.done
    /\ call.list = << <<"a">>, <<"A", "C">> >>
    /\ call.out_text = <<">", "s", "e", "q", "1", "\n", "a", "\n",
                         ">", "s", "e", "q", "2", "\n", "A", "C", "\n">>

\* ------------------------------------------------------------------------
\* C8
\* ------------------------------------------------------------------------

FailedBeforeSave(f) ==
    \/ TooLarge(f)
    \/ InvalidSequence(f)
    \/ EmptyInput(f)
    \/ NoSourceSelected(f)
    \/ FileReadFailure(f)

\* C8: a request that ends with input-too-large, invalid-sequence,
\* empty-input, no-source-selected or a file-read failure shows no save
\* dialog and opens and writes no file; the output path is opened only
\* after a text within the size limit was parsed into at least one
\* epitope, all its tokens inside the alphabet, and the save dialog gave a
\* path.
C8_NoOutputOnFailure ==
    Converted(fx)
    => /\ FailedBeforeSave(fx) => NothingSaved(fx)
       /\ (fx.opened \/ fx.written # <<>>)
            => /\ fx.validated /\ fx.parsed
               /\ SizeOf(fx.text) <= MAX_INPUT_SIZE
               /\ TokensOf(fx.text) # <<>>
               /\ \A i \in 1..Len(TokensOf(fx.text)) : InAlphabet(TokensOf(fx.text)[i])
               /\ fx.epitopes # <<>>
               /\ fx.save_dialog
               /\ fx.output_file # <<>>

\* The selected file could not be decoded
C8_Witness ==
    /\ Converted(fx)
    /\ selected_file # <<>>
    /\ FileReadFailure(fx)
    /\ fx.box.msg = "File encoding not supported"

\* ------------------------------------------------------------------------
\* C9
\* ------------------------------------------------------------------------

\* C9: a request that ends with the save dialog cancelled shows no message
\* box, writes nothing, and leaves every variable of the application, the
\* status text included, as it was when the request started.
C9_CancelIsNoOp ==
    [][(Converted(fx') /\ SaveCancelled(fx'))
        => /\ fx'.box = NoBox
           /\ ~fx'.opened /\ fx'.written = <<>>
           /\ UNCHANGED <<dark_mode, cached_colors, selected_file, input_method,
                          text_input, file_path_var, remove_duplicates,
                          status_var>>]_vars

\* ------------------------------------------------------------------------
\* C10
\* ------------------------------------------------------------------------

\* The list written for a text: its tokens, or their first occurrences
\* when duplicate removal is on
FinalListOf(text, dedupe) ==
    IF dedupe THEN AtPositions(TokensOf(text), FirstOccurrences(TokensOf(text)))
    ELSE TokensOf(text)

\* C10 as claimed: the success report gives the number of epitopes written
\* and, whenever duplicate removal was requested, the number removed, also
\* when it is 0; without duplicate removal it gives no removed count.
C10_AsClaimed ==
    (Converted(fx) /\ Success(fx))
    => /\ fx.box.count = Len(FinalListOf(fx.text, remove_duplicates))
       /\ fx.box.with_removed = remove_duplicates
       /\ remove_duplicates
            => fx.box.removed = Len(TokensOf(fx.text))
                                  - Len(FinalListOf(fx.text, remove_duplicates))

\* C10, amended: the success report gives the number of epitopes written
\* and, when duplicate removal was requested and removed at least one
\* entry, the number removed; when it removed none, or was not requested,
\* the report gives no removed count.
C10_SuccessReport ==
    (Converted(fx) /\ Success(fx))
    => LET final == FinalListOf(fx.text, remove_duplicates)
           removed == Len(TokensOf(fx.text)) - Len(final)
       IN  /\ fx.box.count = Len(final)
           /\ fx.written # <<>>
           /\ status_var = Status("Converted sequences", Len(final))
           /\ fx.box.with_removed = (remove_duplicates /\ removed > 0)
           /\ fx.box.with_removed => fx.box.removed = removed

\* Three lines with one repeat were written with duplicate removal on:
\* two epitopes, one removed
C10_Witness ==
    /\ Converted(fx) /\ Success(fx) /\ remove_duplicates
    /\ fx.box.count = 2
    /\ fx.box.with_removed /\ fx.box.removed = 1

\* ------------------------------------------------------------------------
\* C11
\* ------------------------------------------------------------------------

UnexpectedError(f) ==
    f.box.kind = "showerror" /\ f.box.msg = "An unexpected error occurred"

\* The ways a request ends
Outcomes(f) ==
    <<TooLarge(f), InvalidSequence(f), EmptyInput(f), NoSourceSelected(f),
      FileReadFailure(f), SaveCancelled(f), WriteFailure(f), Success(f),
      UnexpectedError(f)>>

\* The status text a request leaves, given the one it found
StatusAfter(f, before, dedupe) ==
    LET removed == Len(TokensOf(f.text)) - Len(f.epitopes)
    IN  IF Success(f) THEN Status("Converted sequences", Len(f.epitopes))
        ELSE IF InvalidSequence(f) THEN Status("Invalid epitope sequence(s)", 0)
        ELSE IF UnexpectedError(f) THEN Status("Error occurred", 0)
        ELSE IF f.save_dialog /\ dedupe /\ removed > 0
        THEN Status("Removed duplicate(s)", removed)
        ELSE before

\* The outcome f answers a request made with the given pending inputs, by
\* the inputs and the answers of the dialogs and of the file system alone
Answers(f, method, typed, file, dedupe) ==
    LET manual == method = "manual"
        tokens == TokensOf(f.text)
        large == SizeOf(f.text) > MAX_INPUT_SIZE
        blank == \A i \in 1..Len(f.text) : Blank(f.text[i])
        valid == \A i \in 1..Len(tokens) : InAlphabet(tokens[i])
    IN  /\ NoSourceSelected(f) <=> (~manual /\ file = <<>>)
        /\ manual => f.has_text /\ f.text = typed \o <<"\n">>
        /\ (FileReadFailure(f) \/ UnexpectedError(f))
             => ~manual /\ file # <<>> /\ ~f.has_text
        /\ ~f.has_text
             => NoSourceSelected(f) \/ FileReadFailure(f) \/ UnexpectedError(f)
        /\ f.has_text
             => /\ TooLarge(f) <=> (large /\ ~(manual /\ blank))
                /\ EmptyInput(f) <=> (tokens = <<>> /\ (~large \/ (manual /\ blank)))
                /\ InvalidSequence(f) <=> (~large /\ ~valid)
                /\ f.save_dialog <=> (~large /\ valid /\ tokens # <<>>)
                /\ f.save_dialog => f.epitopes = FinalListOf(f.text, dedupe)
                /\ f.save_dialog
                     => SaveCancelled(f) \/ WriteFailure(f) \/ Success(f)

\* C11: every request ends in exactly one way (input too large, invalid
\* sequence, empty input, no source selected, file-read failure, save
\* cancelled, write failure, success, or the unexpected-error box) with
\* the handler returned; a request leaves the pending inputs as they were,
\* and its outcome answers those inputs alone, whatever the requests before
\* it did: only the status text it does not set is the one it found.
C11_ReadyForNextRequest ==
    /\ [](Converted(fx) => Cardinality({k \in 1..9 : Outcomes(fx)[k]}) = 1)
    /\ [][Converted(fx')
            => /\ UNCHANGED <<dark_mode, cached_colors, selected_file,
                              input_method, text_input, file_path_var,
                              remove_duplicates>>
               /\ Answers(fx', input_method, text_input, selected_file,
                          remove_duplicates)
               /\ status_var' = StatusAfter(fx', status_var,
                                            remove_duplicates)]_vars

\* A request ended with the size error after an earlier request had ended
\* with the invalid-sequence error
C11_Witness ==
    /\ Converted(fx) /\ TooLarge(fx)
    /\ status_var = Status("Invalid epitope sequence(s)", 0)

\* ------------------------------------------------------------------------
\* C12
\* ------------------------------------------------------------------------

\* How many of the first i tokens are inside the alphabet
AcceptedUpTo(tokens, i) == Cardinality({j \in 1..i : InAlphabet(tokens[j])})

\* C12: parse_epitopes puts every token of the text in exactly one of its
\* two lists: the i-th token is the next entry of the accepted list when
\* all its characters are alphabet letters in either case, and the next
\* entry of the rejected list otherwise, so both lists keep the order of
\* the text and hold nothing else; no string is in both lists, and no
\* accepted epitope is empty.
C12_TokensPartitioned ==
    (call.fn = "parse_epitopes" /\ call.done)
    => LET tokens == TokensOf(call.text)
           n == Len(tokens)
       IN  /\ Len(call.accepted) + Len(call.rejected) = n
           /\ Len(call.accepted) = AcceptedUpTo(tokens, n)
           /\ \A i \in 1..n :
                 IF InAlphabet(tokens[i])
                 THEN call.accepted[AcceptedUpTo(tokens, i)] = tokens[i]
                 ELSE call.rejected[i - AcceptedUpTo(tokens, i)] = tokens[i]
           /\ \A k \in 1..Len(call.accepted) :
                 /\ call.accepted[k] # <<>>
                 /\ InAlphabet(call.accepted[k])
           /\ \A k \in 1..Len(call.rejected) :
                 /\ call.rejected[k] # <<>>
                 /\ OutsideAlphabet(call.rejected[k])
           /\ Range(call.accepted) \cap Range(call.rejected) = {}

\* The text "C,1,a, ,a1,A": three tokens accepted, two rejected, the blank
\* piece in neither list
C12_Witness ==
    /\ call.fn = "parse_epitopes" /\ call.done
    /\ call.text = MixedText
    /\ call.accepted = << <<"C">>, <<"a">>, <<"A">> >>
    /\ call.rejected = << <<"1">>, <<"a", "1">> >>

\* ------------------------------------------------------------------------
\* C13
\* ------------------------------------------------------------------------

\* C13: _remove_duplicates called on the list it returned returns that
\* list, entry by entry, and so removes 0 entries the second time.
C13_Idempotent ==
    (call.fn = "_remove_duplicates" /\ call.again)
    => /\ call.out_again = call.out_list
       /\ Len(call.out_list) - Len(call.out_again) = 0

\* The list A, C, A, a, C lost two entries in the first call and none in
\* the second
C13_Witness ==
    /\ call.fn = "_remove_duplicates" /\ call.again
    /\ call.list = << <<"A">>, <<"C">>, <<"A">>, <<"a">>, <<"C">> >>
    /\ Len(call.list) - Len(call.out_list) = 2
    /\ call.out_again = << <<"A">>, <<"C">>, <<"a">> >>

\* ------------------------------------------------------------------------
\* C14
\* ------------------------------------------------------------------------

\* A list parse_epitopes can return: no entry empty, every entry inside
\* the alphabet
Validated(list) ==
    \A i \in 1..Len(list) : list[i] # <<>> /\ InAlphabet(list[i])

\* C14: the text written for a list of validated epitopes, split on line
\* breaks, its lines starting with ">" dropped and the others parsed by
\* parse_epitopes, gives back the list, entry by entry in the same order,
\* and parse_epitopes does not raise; one sequence line per epitope was
\* left to parse.
C14_RoundTrip ==
    (call.fn = "round_trip" /\ call.done /\ Validated(call.list))
    => /\ ~call.raised
       /\ call.out_list = call.list
       /\ IF call.list = <<>> THEN PiecesOf(call.text, "\n") = << <<>> >>
          ELSE PiecesOf(call.text, "\n") = Append(call.list, <<>>)

\* Eleven records, so with two-digit headers, came back
C14_Witness ==
    /\ call.fn = "round_trip" /\ call.done
    /\ Len(call.list) = MaxRecords
    /\ call.out_list = call.list
    /\ Len(call.out_text) > Len(call.text)

\* Three records that differ in case and length came back in order
C14_WitnessOrder ==
    /\ call.fn = "round_trip" /\ call.done /\ ~call.raised
    /\ call.list = << <<"a">>, <<"A", "C">>, <<"A">> >>
    /\ call.out_list = call.list
    /\ call.text = <<"a", "\n", "A", "C", "\n", "A", "\n">>

\* ------------------------------------------------------------------------
\* C15
\* ------------------------------------------------------------------------

\* C15: toggle_dark_mode leaves the pending conversion inputs as they
\* were (the typed text, the input method, the selected file and the name
\* displayed for it, the remove-duplicates option), and so at all times
\* the file label reads "No file selected" exactly when no file is
\* selected.
C15_ThemeOnly ==
    /\ [][fx'.handler = "toggle_dark_mode"
            => UNCHANGED <<text_input, input_method, selected_file,
                           file_path_var, remove_duplicates>>]_vars
    /\ [](file_path_var = "No file selected" <=> selected_file = <<>>)

=============================================================================
